---- MODULE Spec2Model ----
(***************************************************************************)
(* Location-history viewer: App.js (two revisions of the App component,    *)
(* the "preset" one with the today/yesterday selector and the "range" one  *)
(* with the from/to date inputs) and utils/mapbox.js (snapToRoad).         *)
(*                                                                         *)
(* Numbers.  Coordinates are integers on a local grid whose unit is one    *)
(* metre; the haversine package (an npm import) is the grid distance.      *)
(* Timestamps are whole seconds.  A JavaScript value that may be a number, *)
(* NaN, undefined or a string is a record [typ, nan, val].                 *)
(***************************************************************************)
EXTENDS Integers, Sequences, FiniteSets, TLC

VARIABLES
    variant,              \* which revision of App is running: "preset" | "range"
    filter,               \* useState('today')            (preset revision)
    fromDate, toDate,     \* useState(todayStr)           (range revision)
    selectedTrackingId,   \* useState('All')
    trackingIds,          \* useState([])
    idsPending,           \* fetchTrackingIds is awaiting the store
    coordinates,          \* useState([])
    polylineCoords,       \* useState([])
    distance,             \* useState('0.00')
    stops,                \* useState([])
    startTime, endTime,   \* useState(null)
    cycles,               \* the fetchData invocations, oldest first
    tzOffset,             \* local time minus UTC of the session, in ms
    writer,               \* index of the cycle whose final writes came last
    lastEnd,              \* how that cycle ended: "rejected", "error", "empty", "ok"
    latest,               \* what the newest cycle wrote when its query or its
                          \* map-matching call resolved, if one has
    call, args, ret       \* a direct call of one function: name, input, result

vars == <<variant, filter, fromDate, toDate, selectedTrackingId, trackingIds,
          idsPending, coordinates, polylineCoords, distance, stops, startTime,
          endTime, cycles, tzOffset, writer, lastEnd, latest, call, args, ret>>

appVars == <<variant, filter, fromDate, toDate, selectedTrackingId, trackingIds,
             idsPending, coordinates, polylineCoords, distance, stops, startTime,
             endTime, cycles, tzOffset, writer, lastEnd, latest>>

fnVars == <<call, args, ret>>

-----------------------------------------------------------------------------
(* Bounds *)

MaxLen == 3        \* longest fix sequence given to an analytic function
MaxSnapLen == 2    \* longest fix sequence given to snapToRoad directly
MaxSegs == 2       \* most matched segments in one map-matching response
MaxSegLen == 2     \* most coordinate pairs in one matched segment
MaxCycles == 3     \* most fetchData invocations in one behaviour

(* Program constants *)

StopMeters == 50
StopMinutes == 5
WalkingKmh == 5
NullTime == -1     \* the null of startTime and endTime (timestamps are >= 0)

-----------------------------------------------------------------------------
(* JavaScript values *)

Num(n) == [typ |-> "number", nan |-> FALSE, val |-> n]
NaN == [typ |-> "number", nan |-> TRUE, val |-> 0]
Undefined == [typ |-> "undefined", nan |-> FALSE, val |-> 0]
Str == [typ |-> "string", nan |-> FALSE, val |-> 0]

TypeofNumber(v) == v.typ = "number"

\* isNaN(v): ToNumber(v) is NaN
IsNaN(v) == v.typ # "number" \/ v.nan

Abs(n) == IF n < 0 THEN -n ELSE n

\* a row of the locations table
Fix(lat, lon, ts) ==
    [latitude |-> lat, longitude |-> lon, timestamp |-> ts,
     tracking_id |-> "T1", address |-> "addr"]

\* haversine(a, b, {unit: 'meter'}): any operand that is not a number makes
\* the arithmetic NaN
Haversine(a, b) ==
    IF \/ IsNaN(a.latitude) \/ IsNaN(a.longitude)
       \/ IsNaN(b.latitude) \/ IsNaN(b.longitude)
    THEN NaN
    ELSE Num(Abs(a.latitude.val - b.latitude.val)
             + Abs(a.longitude.val - b.longitude.val))

\* a + b on numbers
JsAdd(a, b) == IF a.nan \/ b.nan THEN NaN ELSE Num(a.val + b.val)

Digits2(n) == IF n < 10 THEN "0" \o ToString(n) ELSE ToString(n)

\* (metres / 1000).toFixed(2)
ToFixed2(m) ==
    IF m.nan THEN "NaN"
    ELSE LET c == (m.val + 5) \div 10
         IN  ToString(c \div 100) \o "." \o Digits2(c % 100)

-----------------------------------------------------------------------------
(* App.js: the analytic functions *)

RECURSIVE SumPairs(_, _)
\* the loop of calculateTotalDistance from index i on
SumPairs(coords, i) ==
    IF i > Len(coords) - 1 THEN Num(0)
    ELSE LET a == coords[i]
             b == coords[i + 1]
         IN  IF \/ ~TypeofNumber(a.latitude) \/ ~TypeofNumber(a.longitude)
                \/ ~TypeofNumber(b.latitude) \/ ~TypeofNumber(b.longitude)
             THEN SumPairs(coords, i + 1)
             ELSE JsAdd(Haversine(a, b), SumPairs(coords, i + 1))

calculateTotalDistance(coords) ==
    IF Len(coords) < 2 THEN "0.00" ELSE ToFixed2(SumPairs(coords, 1))

\* km/h, kept as metres per hour (rounded down) so that it stays an integer
calculateSpeed(from, to) ==
    LET distanceM == Haversine(from, to)
        timeDiff == to.timestamp - from.timestamp
    IN  IF timeDiff = 0 \/ timeDiff <= 0 THEN Num(0)
        ELSE IF distanceM.nan THEN NaN
        ELSE Num((distanceM.val * 3600) \div timeDiff)

\* mutant: the distance bound is exclusive
isStopExclusive(current, previous) ==
    LET distanceM == Haversine(current, previous)
        timeDiff == current.timestamp - previous.timestamp
    IN  /\ ~distanceM.nan
        /\ distanceM.val < StopMeters
        /\ timeDiff >= StopMinutes * 60

isStop(current, previous) ==
    LET distanceM == Haversine(current, previous)
        timeDiff == current.timestamp - previous.timestamp
    IN  /\ ~distanceM.nan
        /\ distanceM.val <= StopMeters
        /\ timeDiff >= StopMinutes * 60

RECURSIVE StopsFrom(_, _)
\* the stop loop of fetchData from index i on
StopsFrom(validCoords, i) ==
    IF i > Len(validCoords) THEN <<>>
    ELSE (IF isStop(validCoords[i], validCoords[i - 1])
          THEN <<validCoords[i]>> ELSE <<>>)
         \o StopsFrom(validCoords, i + 1)

detectedStops(validCoords) == StopsFrom(validCoords, 2)

\* mutant: exactly 5 km/h still counts as walking
speedLabelInclusive(coords, index) ==
    IF index > 1
    THEN LET speed == calculateSpeed(coords[index - 1], coords[index])
         IN  IF ~speed.nan /\ speed.val <= WalkingKmh * 1000
             THEN "Walking" ELSE "Vehicle"
    ELSE ""

\* the Mode line of the popup of marker index (1-based here)
speedLabel(coords, index) ==
    IF index > 1
    THEN LET speed == calculateSpeed(coords[index - 1], coords[index])
         IN  IF ~speed.nan /\ speed.val < WalkingKmh * 1000
             THEN "Walking" ELSE "Vehicle"
    ELSE ""

\* mutant: the filter tests the types only
IsValidPointTypeOnly(pt) ==
    /\ TypeofNumber(pt.latitude)
    /\ TypeofNumber(pt.longitude)

\* data.filter(...) of fetchData
IsValidPoint(pt) ==
    /\ TypeofNumber(pt.latitude)
    /\ TypeofNumber(pt.longitude)
    /\ ~IsNaN(pt.latitude)
    /\ ~IsNaN(pt.longitude)

validCoordsOf(data) == SelectSeq(data, IsValidPoint)

-----------------------------------------------------------------------------
(* utils/mapbox.js *)

\* what axios.get(url) can produce: a rejection ("error": transport failure or
\* a non-2xx status), or a response whose data.matchings is missing or a list
\* of matchings, each with or without geometry.coordinates ([lng, lat] pairs)
Pairs == {<<0, 0>>, <<0, 1>>, <<0, 2>>}

CoordLists == UNION {[1..n -> Pairs] : n \in 0..MaxSegLen}

Matchings ==
    {[hasGeometry |-> TRUE, coordinates |-> cs] : cs \in CoordLists}
    \cup {[hasGeometry |-> FALSE, coordinates |-> <<>>]}

MatchingLists == UNION {[1..n -> Matchings] : n \in 0..MaxSegs}

Responses ==
    {[status |-> "error", hasMatchings |-> FALSE, matchings |-> <<>>],
     [status |-> "ok", hasMatchings |-> FALSE, matchings |-> <<>>]}
    \cup {[status |-> "ok", hasMatchings |-> TRUE, matchings |-> ms] :
            ms \in MatchingLists}

RECURSIVE allCoordsOf(_)
\* matchings.forEach(... allCoords = allCoords.concat(...))
allCoordsOf(matchings) ==
    IF matchings = <<>> THEN <<>>
    ELSE (IF Head(matchings).hasGeometry
          THEN Head(matchings).coordinates ELSE <<>>)
         \o allCoordsOf(Tail(matchings))

RECURSIVE uniqueFrom(_, _)
\* allCoords.filter((coord, index, self) => ...) from index i on
uniqueFrom(self, i) ==
    IF i > Len(self) THEN <<>>
    ELSE (IF \/ i = 1
             \/ self[i][1] # self[i - 1][1]
             \/ self[i][2] # self[i - 1][2]
          THEN <<self[i]>> ELSE <<>>)
         \o uniqueFrom(self, i + 1)

\* mutant: every repeated pair is dropped, adjacent or not
uniqueCoordsGlobal(allCoords) ==
    LET first == {i \in 1..Len(allCoords) :
                     \A j \in 1..(i - 1) : allCoords[j] # allCoords[i]}
        RECURSIVE pick(_)
        pick(i) == IF i > Len(allCoords) THEN <<>>
                   ELSE (IF i \in first THEN <<allCoords[i]>> ELSE <<>>) \o pick(i + 1)
    IN  pick(1)

uniqueCoordsOf(allCoords) == uniqueFrom(allCoords, 1)

\* uniqueCoords.map(([lng, lat]) => ({latitude: lat, longitude: lng}))
toPoints(uniqueCoords) ==
    [i \in 1..Len(uniqueCoords) |->
        [latitude |-> Num(uniqueCoords[i][2]),
         longitude |-> Num(uniqueCoords[i][1])]]

\* mutant: the catch block logs and rethrows
snapCatchRethrows(coords) == [threw |-> TRUE, value |-> <<>>]

\* mutant: a response without matchings is raised as an error
snapNoMatchThrows(coords) == [threw |-> TRUE, value |-> <<>>]

\* what the catch block of snapToRoad does with a rejected request
snapCatch(coords) == [threw |-> FALSE, value |-> coords]

\* what snapToRoad does with a response that has no matchings
snapNoMatch(coords) == [threw |-> FALSE, value |-> coords]

\* snapToRoad(coords) when the request, if one is made, ends as resp:
\* threw tells whether the returned promise rejects, value is what it
\* resolves to
snapToRoad(coords, resp) ==
    IF Len(coords) < 2 THEN [threw |-> FALSE, value |-> coords]
    ELSE IF resp.status = "error" THEN snapCatch(coords)
    ELSE IF ~resp.hasMatchings \/ Len(resp.matchings) = 0
         THEN snapNoMatch(coords)
    ELSE [threw |-> FALSE,
          value |-> toPoints(uniqueCoordsOf(allCoordsOf(resp.matchings)))]

-----------------------------------------------------------------------------------------------------------------------------------------------------------------------------------------------------------------------------
(* App.js: dates.  An instant is [day, ms]: a day number (0 is 2023-12-01)  *)
(* and the milliseconds into that day.                                      *)

MsPerDay == 24 * 3600000

\* first days of 2023-12, 2024-01, 2024-02, 2024-03, 2024-04, 2024-05
MonthStarts == {0, 31, 62, 91, 122, 152}

MonthStart(day) == CHOOSE s \in MonthStarts :
                      s <= day /\ \A r \in MonthStarts : r <= day => r <= s

\* date.getDate()
getDate(date) == date.day - MonthStart(date.day) + 1

\* mutant: a day number below 1 is not carried into the month before
setDateClamped(date, n) ==
    [day |-> MonthStart(date.day) + (IF n < 1 THEN 1 ELSE n) - 1, ms |-> date.ms]

\* date.setDate(n): day n of date's month, running over into the months
\* around it
setDate(date, n) == [day |-> MonthStart(date.day) + n - 1, ms |-> date.ms]

\* date.setHours(h, m, s, ms)
setHours(date, h, m, sec, ms) ==
    [day |-> date.day, ms |-> ((h * 60 + m) * 60 + sec) * 1000 + ms]

\* date.toISOString() of a local instant: the instant in UTC
toISOString(date, tz) ==
    LET t == date.ms - tz
    IN  IF t < 0 THEN [day |-> date.day - 1, ms |-> t + MsPerDay]
        ELSE IF t >= MsPerDay THEN [day |-> date.day + 1, ms |-> t - MsPerDay]
        ELSE [day |-> date.day, ms |-> t]

getDateRange(option, now) ==
    IF option = "today"
    THEN [start |-> setHours(now, 0, 0, 0, 0),
          end |-> setHours(now, 23, 59, 59, 999)]
    ELSE IF option = "yesterday"
    THEN [start |-> setHours(setDate(now, getDate(now) - 1), 0, 0, 0, 0),
          end |-> setHours(setDate(now, getDate(now) - 1), 23, 59, 59, 999)]
    ELSE [start |-> now, end |-> now]

\* the value of a date input: a calendar day, or '' when cleared
DateOf(d) == [empty |-> FALSE, day |-> d]
EmptyDate == [empty |-> TRUE, day |-> 0]

\* a <= b on instants
NotAfter(a, b) == a.day < b.day \/ (a.day = b.day /\ a.ms <= b.ms)

\* fromTime and toTime of the preset revision
presetWindow(option, now, tz) ==
    LET r == getDateRange(option, now)
    IN  [valid |-> TRUE,
         fromTime |-> toISOString(r.start, tz),
         toTime |-> toISOString(r.end, tz)]

\* fromTime and toTime of the range revision; new Date('T00:00:00.000Z') is
\* an invalid date and its toISOString() throws
rangeWindow(from, to) ==
    [valid |-> ~from.empty /\ ~to.empty,
     fromTime |-> setHours([day |-> from.day, ms |-> 0], 0, 0, 0, 0),
     toTime |-> setHours([day |-> to.day, ms |-> 0], 23, 59, 59, 999)]

-----------------------------------------------------------------------------
(* App.js: the display state and fetchData *)

Display ==
    [coordinates |-> coordinates, polylineCoords |-> polylineCoords,
     stops |-> stops, distance |-> distance,
     startTime |-> startTime, endTime |-> endTime]

SetDisplay(d) ==
    /\ coordinates' = d.coordinates
    /\ polylineCoords' = d.polylineCoords
    /\ stops' = d.stops
    /\ distance' = d.distance
    /\ startTime' = d.startTime
    /\ endTime' = d.endTime

\* setCoordinates([]) ... setEndTime(null)
Cleared ==
    [coordinates |-> <<>>, polylineCoords |-> <<>>, stops |-> <<>>,
     distance |-> "0.00", startTime |-> NullTime, endTime |-> NullTime]

\* the writes of fetchData after snapToRoad has resolved
Derived(validCoords, snappedLineCoords) ==
    [coordinates |-> validCoords,
     polylineCoords |-> snappedLineCoords,
     distance |-> calculateTotalDistance(validCoords),
     startTime |-> validCoords[1].timestamp,
     endTime |-> validCoords[Len(validCoords)].timestamp,
     stops |-> detectedStops(validCoords)]

\* mutant: the catch block only logs
catchWritesNothing == Display

\* the writes of the catch block of fetchData
catchWrites == Cleared

\* fetchData from the await of snapToRoad on
afterSnap(validCoords, snap) ==
    IF snap.threw THEN catchWrites ELSE Derived(validCoords, snap.value)

Cycle(pc, window, validCoords) ==
    [pc |-> pc, window |-> window, validCoords |-> validCoords]

NoWindow == rangeWindow(EmptyDate, EmptyDate)

\* a fetchData invocation that has run to its end
Ended == Cycle("done", NoWindow, <<>>)

\* fetchData up to its first await: the display is cleared, the window is
\* computed, and the query is sent unless computing the window threw
Started(window) ==
    IF window.valid THEN Cycle("query", window, <<>>) ELSE Ended

-----------------------------------------------------------------------------
(* The collaborators' answers *)

FixA == Fix(Num(0), Num(0), 0)
FixX == Fix(NaN, Num(0), 36)
FixB == Fix(Num(50), Num(0), 300)

\* the rows a store query can return (ascending by timestamp)
StoreRows == { <<>>, <<FixX>>, <<FixA>>, <<FixA, FixX, FixB>> }

\* the answers of the map-matching service seen by the App
AppResponses ==
    {[status |-> "error", hasMatchings |-> FALSE, matchings |-> <<>>],
     [status |-> "ok", hasMatchings |-> FALSE, matchings |-> <<>>],
     [status |-> "ok", hasMatchings |-> TRUE, matchings |->
        << [hasGeometry |-> TRUE, coordinates |-> <<<<0, 0>>, <<0, 1>>>>],
           [hasGeometry |-> TRUE, coordinates |-> <<<<0, 1>>, <<0, 2>>>>] >>],
     [status |-> "ok", hasMatchings |-> TRUE, matchings |->
        << [hasGeometry |-> FALSE, coordinates |-> <<>>] >>]}

\* the rows of the tracking_id query
IdRows == { <<>>, <<"T1">>, <<"T1", "T1">> }

\* the reference instants new Date() yields: 2024-01-01 00:00:00.000 and
\* 2024-03-15 23:59:59.999, local time
Nows == {[day |-> 31, ms |-> 0], [day |-> 105, ms |-> MsPerDay - 1]}

\* the sessions' time zones: UTC+05:30 and UTC-05:00
TzOffsets == {19800000, 0 - 18000000}

\* the days the date inputs can be set to
DateDays == {104, 105, 106}

DateValues == {DateOf(d) : d \in DateDays} \cup {EmptyDate}

RECURSIVE uniqueIds(_)
\* Array.from(new Set(ids))
uniqueIds(ids) ==
    IF ids = <<>> THEN <<>>
    ELSE LET front == uniqueIds(SubSeq(ids, 1, Len(ids) - 1))
             last == ids[Len(ids)]
         IN  IF \E i \in 1..Len(front) : front[i] = last
             THEN front ELSE Append(front, last)

-----
(* Direct calls of the functions, on every input within the bounds *)

Latitudes == {Num(0), Num(50), Num(51), NaN, Undefined}

FixUniverse ==
    {Fix(lat, Num(0), ts) : lat \in Latitudes, ts \in {0, 36, 300, 600}}
    \cup {Fix(Num(0), Str, 0)}

FixSeqs == UNION {[1..n -> FixUniverse] : n \in 0..MaxLen}

SnapFixes == {Fix(Num(50), Num(0), 300), Fix(NaN, Num(0), 0)}

SnapFixSeqs == UNION {[1..n -> SnapFixes] : n \in 0..MaxSnapLen}

AppIdle ==
    /\ variant = "range"
    /\ filter = "today"
    /\ fromDate = EmptyDate
    /\ toDate = EmptyDate
    /\ selectedTrackingId = "All"
    /\ trackingIds = <<>>
    /\ idsPending = FALSE
    /\ coordinates = <<>>
    /\ polylineCoords = <<>>
    /\ distance = "0.00"
    /\ stops = <<>>
    /\ startTime = NullTime
    /\ endTime = NullTime
    /\ cycles = <<>>
    /\ tzOffset = 0
    /\ writer = 0
    /\ lastEnd = ""
    /\ latest = [done |-> FALSE, state |-> Cleared]

InitFn ==
    /\ AppIdle
    /\ call = "none"
    /\ args \in FixSeqs
    /\ ret = <<>>

InitSnap ==
    /\ AppIdle
    /\ call = "none"
    /\ args \in SnapFixSeqs
    /\ ret = <<>>

CallSnapToRoad ==
    /\ call = "none"
    /\ \E resp \in Responses :
          /\ call' = "snapToRoad"
          /\ ret' = [resp |-> resp, out |-> snapToRoad(args, resp)]
    /\ UNCHANGED <<args, appVars>>

CallCalculateTotalDistance ==
    /\ call = "none"
    /\ call' = "calculateTotalDistance"
    /\ ret' = calculateTotalDistance(args)
    /\ UNCHANGED <<args, appVars>>

CallDetectStops ==
    /\ call = "none"
    /\ call' = "detectStops"
    /\ ret' = detectedStops(args)
    /\ UNCHANGED <<args, appVars>>

CallSpeedLabels ==
    /\ call = "none"
    /\ call' = "speedLabels"
    /\ ret' = [index \in 1..Len(args) |-> speedLabel(args, index)]
    /\ UNCHANGED <<args, appVars>>

NextFn ==
    \/ CallCalculateTotalDistance
    \/ CallDetectStops
    \/ CallSpeedLabels

SpecFn == InitFn /\ [][NextFn]_vars

\* the reference instants of a direct call of getDateRange: every day from
\* 2023-12-01 to 2024-04-30, at its first millisecond, at noon and at its last
RefDays == 0..151

RefInstants ==
    {[day |-> d, ms |-> m] : d \in RefDays, m \in {0, 12 * 3600000, MsPerDay - 1}}

InitDate ==
    /\ AppIdle
    /\ call = "none"
    /\ args \in RefInstants
    /\ ret = <<>>

CallGetDateRange(option) ==
    /\ call = "none"
    /\ call' = "getDateRange"
    /\ ret' = [option |-> option, range |-> getDateRange(option, args)]
    /\ UNCHANGED <<args, appVars>>

NextDate == \E option \in {"today", "yesterday"} : CallGetDateRange(option)

SpecDate == InitDate /\ [][NextDate]_vars

NextSnap == CallSnapToRoad

SpecSnap == InitSnap /\ [][NextSnap]_vars

-----------------------------------------------------------------------------------------------------------------------------------------------------
(* The App: one action per event handler or promise continuation *)

InitialDay == CHOOSE d \in DateDays : \E a, b \in DateDays : a < d /\ d < b

\* the window a fetchData invocation computes from the current selections
windowOf(v, option, from, to, now, tz) ==
    IF v = "preset" THEN presetWindow(option, now, tz) ELSE rangeWindow(from, to)

\* the effect runs fetchData: its synchronous part, up to the first await
RunEffect(window) ==
    LET c == Started(window)
    IN  /\ SetDisplay(Cleared)
        /\ cycles' = Append(cycles, c)
        /\ latest' = [done |-> FALSE, state |-> Cleared]
        /\ writer' = IF c.pc = "done" THEN Len(cycles) + 1 ELSE writer
        /\ lastEnd' = IF c.pc = "done" THEN "rejected" ELSE lastEnd

\* the last writes of invocation c
Finish(c, d, end) ==
    /\ SetDisplay(d)
    /\ cycles' = [cycles EXCEPT ![c] = Ended]
    /\ writer' = c
    /\ lastEnd' = end
    /\ latest' = IF c = Len(cycles) THEN [done |-> TRUE, state |-> d] ELSE latest

\* the state after mount: both effects have run up to their first await
Init ==
    /\ variant \in {"preset", "range"}
    /\ tzOffset \in (IF variant = "preset" THEN TzOffsets ELSE {0})
    /\ filter = "today"
    /\ fromDate = DateOf(InitialDay)
    /\ toDate = DateOf(InitialDay)
    /\ selectedTrackingId = "All"
    /\ trackingIds = <<>>
    /\ idsPending = TRUE
    /\ coordinates = <<>>
    /\ polylineCoords = <<>>
    /\ distance = "0.00"
    /\ stops = <<>>
    /\ startTime = NullTime
    /\ endTime = NullTime
    /\ \E now \in Nows :
          cycles = <<Started(windowOf(variant, filter, fromDate, toDate, now, tzOffset))>>
    /\ writer = 0
    /\ lastEnd = ""
    /\ latest = [done |-> FALSE, state |-> Cleared]
    /\ call = "none"
    /\ args = <<>>
    /\ ret = <<>>

\* onChange of the date-filter select (preset revision)
SetFilter(option, now) ==
    /\ variant = "preset"
    /\ Len(cycles) < MaxCycles
    /\ option # filter
    /\ filter' = option
    /\ RunEffect(presetWindow(option, now, tzOffset))
    /\ UNCHANGED <<variant, tzOffset, fromDate, toDate, selectedTrackingId,
                   trackingIds, idsPending, fnVars>>

\* onChange of the from-date input (range revision).  max={toDate} limits what
\* the picker offers; a date typed on the keyboard is handed to the handler
\* whatever max says.
SetFromDate(d, how) ==
    /\ variant = "range"
    /\ Len(cycles) < MaxCycles
    /\ d # fromDate
    /\ (how = "picker" /\ ~d.empty /\ ~toDate.empty) => d.day <= toDate.day
    /\ fromDate' = d
    /\ RunEffect(rangeWindow(d, toDate))
    /\ UNCHANGED <<variant, tzOffset, filter, toDate, selectedTrackingId,
                   trackingIds, idsPending, fnVars>>

\* onChange of the to-date input (range revision), with min={fromDate}
SetToDate(d, how) ==
    /\ variant = "range"
    /\ Len(cycles) < MaxCycles
    /\ d # toDate
    /\ (how = "picker" /\ ~d.empty /\ ~fromDate.empty) => fromDate.day <= d.day
    /\ toDate' = d
    /\ RunEffect(rangeWindow(fromDate, d))
    /\ UNCHANGED <<variant, tzOffset, filter, fromDate, selectedTrackingId,
                   trackingIds, idsPending, fnVars>>

\* onChange of the tracking-id select, whose options are trackingIds
SetSelectedTrackingId(id, now) ==
    /\ Len(cycles) < MaxCycles
    /\ \E i \in 1..Len(trackingIds) : trackingIds[i] = id
    /\ id # selectedTrackingId
    /\ selectedTrackingId' = id
    /\ RunEffect(windowOf(variant, filter, fromDate, toDate, now, tzOffset))
    /\ UNCHANGED <<variant, tzOffset, filter, fromDate, toDate,
                   trackingIds, idsPending, fnVars>>

\* the store query of invocation c resolves with an error: throw, catch
StoreError(c) ==
    /\ cycles[c].pc = "query"
    /\ Finish(c, catchWrites, "error")
    /\ UNCHANGED <<variant, tzOffset, filter, fromDate, toDate,
                   selectedTrackingId, trackingIds, idsPending, fnVars>>

\* the store query of invocation c resolves with rows (none when the window
\* of gte/lte is inverted).  With fewer than 2 valid rows no request is made
\* and the invocation runs to its end.
StoreData(c, data) ==
    /\ cycles[c].pc = "query"
    /\ ~NotAfter(cycles[c].window.fromTime, cycles[c].window.toTime) => data = <<>>
    /\ LET validCoords == validCoordsOf(data)
       IN  IF Len(validCoords) = 0
           THEN Finish(c, Cleared, "empty")
           ELSE IF Len(validCoords) < 2
           THEN LET snap == snapToRoad(validCoords,
                                       [status |-> "error", hasMatchings |-> FALSE,
                                        matchings |-> <<>>])
                IN  Finish(c, afterSnap(validCoords, snap),
                           IF snap.threw THEN "error" ELSE "ok")
           ELSE /\ cycles' = [cycles EXCEPT ![c] = Cycle("snap", NoWindow, validCoords)]
                /\ UNCHANGED <<coordinates, polylineCoords, stops, distance,
                               startTime, endTime, writer, lastEnd, latest>>
    /\ UNCHANGED <<variant, tzOffset, filter, fromDate, toDate,
                   selectedTrackingId, trackingIds, idsPending, fnVars>>

\* the map-matching request of invocation c ends as resp
MatchResolve(c, resp) ==
    /\ cycles[c].pc = "snap"
    /\ LET snap == snapToRoad(cycles[c].validCoords, resp)
       IN  Finish(c, afterSnap(cycles[c].validCoords, snap),
                  IF snap.threw THEN "error" ELSE "ok")
    /\ UNCHANGED <<variant, tzOffset, filter, fromDate, toDate,
                   selectedTrackingId, trackingIds, idsPending, fnVars>>

\* fetchTrackingIds: the query resolves with rows
TrackingIdsLoaded(rows) ==
    /\ idsPending
    /\ idsPending' = FALSE
    /\ trackingIds' = <<"All">> \o uniqueIds(rows)
    /\ UNCHANGED <<variant, tzOffset, filter, fromDate, toDate, selectedTrackingId,
                   coordinates, polylineCoords, stops, distance, startTime,
                   endTime, cycles, writer, lastEnd, latest, fnVars>>

\* fetchTrackingIds: the query resolves with an error
TrackingIdsFailed ==
    /\ idsPending
    /\ idsPending' = FALSE
    /\ trackingIds' = <<>>
    /\ UNCHANGED <<variant, tzOffset, filter, fromDate, toDate, selectedTrackingId,
                   coordinates, polylineCoords, stops, distance, startTime,
                   endTime, cycles, writer, lastEnd, latest, fnVars>>

FilterChange ==
    \/ \E option \in {"today", "yesterday"}, now \in Nows : SetFilter(option, now)
    \/ \E d \in DateValues, how \in {"picker", "keyboard"} : SetFromDate(d, how)
    \/ \E d \in DateValues, how \in {"picker", "keyboard"} : SetToDate(d, how)
    \/ \E id \in {"All", "T1"}, now \in Nows : SetSelectedTrackingId(id, now)

Next ==
    \/ FilterChange
    \/ \E c \in 1..Len(cycles) : StoreError(c)
    \/ \E c \in 1..Len(cycles), data \in StoreRows : StoreData(c, data)
    \/ \E c \in 1..Len(cycles), resp \in AppResponses : MatchResolve(c, resp)
    \/ \E rows \in IdRows : TrackingIdsLoaded(rows)
    \/ TrackingIdsFailed

Spec == Init /\ [][Next]_vars

-----
(* Claims about snapToRoad, checked under SpecSnap *)

Snapped == call = "snapToRoad"

MatchFailed ==
    \/ ret.resp.status = "error"
    \/ ~ret.resp.hasMatchings
    \/ Len(ret.resp.matchings) = 0

\* C2: with 2 or more fixes and a map-matching call that fails or returns a
\* missing or empty matchings list, snapToRoad does not raise and returns a
\* sequence as long as the input whose i-th element has the latitude and
\* longitude of the i-th input fix.
C2_FallbackKeepsInput ==
    (Snapped /\ Len(args) >= 2 /\ MatchFailed) =>
        /\ ~ret.out.threw
        /\ Len(ret.out.value) = Len(args)
        /\ \A i \in 1..Len(args) :
              /\ ret.out.value[i].latitude = args[i].latitude
              /\ ret.out.value[i].longitude = args[i].longitude

C2_Witness ==
    /\ Snapped
    /\ Len(args) >= 2
    /\ ret.resp.status = "error"
    /\ ret.out.value = args

\* C3: every element snapToRoad returns, in every branch, carries only
\* latitude and longitude.
C3_OnlyLatLon ==
    Snapped =>
        \A i \in 1..Len(ret.out.value) :
            DOMAIN ret.out.value[i] = {"latitude", "longitude"}

\* the concatenation of the segments' coordinates, in the order returned
Flat(ms) ==
    LET n(k) == IF ms[k].hasGeometry THEN Len(ms[k].coordinates) ELSE 0
        RECURSIVE upto(_)
        upto(k) == IF k = 0 THEN 0 ELSE upto(k - 1) + n(k)
        seg(p) == CHOOSE k \in 1..Len(ms) : upto(k - 1) < p /\ p <= upto(k)
    IN  [p \in 1..upto(Len(ms)) |-> ms[seg(p)].coordinates[p - upto(seg(p) - 1)]]

\* the number of runs of equal adjacent pairs in all[1..i]
RunIndex(all, i) ==
    Cardinality({j \in 1..i : j = 1 \/ all[j] # all[j - 1]})

\* C4: on a response with one or more matched segments snapToRoad returns the
\* segments' coordinates concatenated in the order returned, every run of
\* adjacent equal pairs collapsed to one point and nothing else removed;
\* segments [[0,0],[0,1]] and [[0,1],[0,2]] give exactly three points.
C4_ConcatCollapse ==
    (Snapped /\ Len(args) >= 2 /\ ~MatchFailed) =>
        LET all == Flat(ret.resp.matchings)
            out == ret.out.value
        IN  /\ ~ret.out.threw
            /\ Len(out) = RunIndex(all, Len(all))
            /\ \A i \in 1..Len(all) :
                  out[RunIndex(all, i)] =
                      [latitude |-> Num(all[i][2]), longitude |-> Num(all[i][1])]
            /\ (ret.resp.matchings =
                   << [hasGeometry |-> TRUE, coordinates |-> <<<<0, 0>>, <<0, 1>>>>],
                      [hasGeometry |-> TRUE, coordinates |-> <<<<0, 1>>, <<0, 2>>>>] >>)
               => Len(out) = 3

C4_Witness ==
    /\ Snapped
    /\ Len(args) >= 2
    /\ ret.resp.status = "ok"
    /\ ret.resp.matchings =
          << [hasGeometry |-> TRUE, coordinates |-> <<<<0, 0>>, <<0, 1>>>>],
             [hasGeometry |-> TRUE, coordinates |-> <<<<0, 1>>, <<0, 2>>>>] >>
    /\ ret.out.value = << [latitude |-> Num(0), longitude |-> Num(0)],
                          [latitude |-> Num(1), longitude |-> Num(0)],
                          [latitude |-> Num(2), longitude |-> Num(0)] >>

-----------------------------------------------------------------------------
(* Claims about the analytic functions, checked under SpecFn *)

\* latitude and longitude present, numeric and not NaN
ValidFix(f) ==
    /\ f.latitude.typ = "number" /\ ~f.latitude.nan
    /\ f.longitude.typ = "number" /\ ~f.longitude.nan

Metres(a, b) ==
    Abs(a.latitude.val - b.latitude.val) + Abs(a.longitude.val - b.longitude.val)

\* the pair (fixes[i-1], fixes[i]) is at most 50 m and at least 5 min apart
Qualifies(fixes, i) ==
    /\ ValidFix(fixes[i - 1]) /\ ValidFix(fixes[i])
    /\ Metres(fixes[i - 1], fixes[i]) <= 50
    /\ fixes[i].timestamp - fixes[i - 1].timestamp >= 300

QualifyingUpTo(fixes, i) == {j \in 2..i : Qualifies(fixes, j)}

\* C5: the detected stops are exactly the ordered subsequence of fixes[i],
\* i >= 1 (0-based), whose pair (fixes[i-1], fixes[i]) is at most 50 metres and
\* at least 5 minutes apart, both bounds inclusive; each qualifying pair
\* emits its later fix, and at most N-1 events are emitted.
C5_StopsArePairs ==
    (call = "detectStops") =>
        LET N == Len(args)
        IN  /\ Len(ret) = Cardinality(QualifyingUpTo(args, N))
            /\ \A i \in QualifyingUpTo(args, N) :
                  ret[Cardinality(QualifyingUpTo(args, i))] = args[i]
            /\ (N >= 1 => Len(ret) <= N - 1)
            /\ (N = 0 => ret = <<>>)

\* two consecutive qualifying pairs, the first of them exactly on both bounds
C5_Witness ==
    /\ call = "detectStops"
    /\ Len(args) = 3
    /\ Metres(args[1], args[2]) = 50
    /\ args[2].timestamp - args[1].timestamp = 300
    /\ QualifyingUpTo(args, 3) = {2, 3}
    /\ ret = <<args[2], args[3]>>

\* C6: for consecutive displayed fixes the label is "Walking" when the elapsed
\* time is zero or negative or the speed is below 5 km/h, "Vehicle" when the
\* speed is 5 km/h or more; the first fix has no label.
\* (speed in km/h is 3.6 * metres / seconds, so speed < 5 iff 18 m < 25 s)
C6_ModeLabel ==
    (call = "speedLabels") =>
        /\ Len(ret) = Len(args)
        /\ (Len(args) >= 1 => ret[1] = "")
        /\ \A i \in 2..Len(args) :
              (ValidFix(args[i - 1]) /\ ValidFix(args[i])) =>
                  LET m == Metres(args[i - 1], args[i])
                      t == args[i].timestamp - args[i - 1].timestamp
                  IN  ret[i] = IF t <= 0 \/ 18 * m < 25 * t
                               THEN "Walking" ELSE "Vehicle"

\* a pair at exactly 5 km/h (50 m in 36 s) labelled Vehicle, and a pair out of
\* order in time labelled Walking
C6_Witness ==
    /\ call = "speedLabels"
    /\ Len(args) = 3
    /\ ValidFix(args[1]) /\ ValidFix(args[2]) /\ ValidFix(args[3])
    /\ Metres(args[1], args[2]) = 50
    /\ args[2].timestamp - args[1].timestamp = 36
    /\ args[3].timestamp < args[2].timestamp
    /\ Metres(args[2], args[3]) > 0
    /\ ret = <<"", "Vehicle", "Walking">>

RECURSIVE ValidPairMetres(_, _)
\* the sum of the distances of the pairs (fixes[i], fixes[i+1]) of two valid
\* fixes, from pair i on
ValidPairMetres(fixes, i) ==
    IF i >= Len(fixes) THEN 0
    ELSE (IF ValidFix(fixes[i]) /\ ValidFix(fixes[i + 1])
          THEN Metres(fixes[i], fixes[i + 1]) ELSE 0)
         + ValidPairMetres(fixes, i + 1)

\* C7: calculateTotalDistance skips every pair in which either fix is invalid
\* (latitude or longitude absent, non-numeric or NaN): the result is the
\* 2-decimal sum over the pairs of two valid fixes, "0.00" under 2 fixes.
C7_SkipsInvalidPairs ==
    (call = "calculateTotalDistance") =>
        ret = IF Len(args) < 2 THEN "0.00"
              ELSE ToFixed2(Num(ValidPairMetres(args, 1)))

-----------------------------------------------------------------------------
(* Claims about the retrieval cycles, checked under Spec *)

AllResolved == \A c \in 1..Len(cycles) : cycles[c].pc = "done"

\* C1: whatever order the store queries and map-matching calls of two cycles
\* resolve in, the older cycle's result is not written over the newer one's:
\* once all have resolved the display state is the one the newest derived.
C1_NewestWins ==
    (AllResolved /\ latest.done) => Display = latest.state

\* C8: when the store query of a cycle fails, the cycle ends with the whole
\* display state cleared (no coordinates, polyline or stops, distance "0.00",
\* null start and end time), and a filter change can still start a cycle.
C8_StoreErrorClears ==
    /\ [][(\E c \in 1..Len(cycles) :
              /\ cycles[c].pc = "query"
              /\ cycles'[c].pc = "done"
              /\ lastEnd' = "error")
          => /\ coordinates' = <<>>
             /\ polylineCoords' = <<>>
             /\ stops' = <<>>
             /\ distance' = "0.00"
             /\ startTime' = NullTime
             /\ endTime' = NullTime]_vars
    /\ []((lastEnd = "error" /\ Len(cycles) < MaxCycles) => ENABLED FilterChange)

\* the store query of the first cycle has failed while a later cycle is
\* still waiting for its own
C8_Witness ==
    /\ lastEnd = "error"
    /\ writer = 1
    /\ Len(cycles) = 2
    /\ cycles[2].pc = "query"
    /\ Display = Cleared

RECURSIVE StopsUpTo(_, _)
\* the later fixes of the qualifying pairs among fixes[1..i], in order
StopsUpTo(fixes, i) ==
    IF i < 2 THEN <<>>
    ELSE StopsUpTo(fixes, i - 1)
         \o (IF Qualifies(fixes, i) THEN <<fixes[i]>> ELSE <<>>)

\* C9: a cycle whose store query returned at least one valid fix and whose
\* map-matching call then resolves, in whatever way (success, failure, no
\* matchings), ends with coordinates equal to the valid fixes and with
\* distance, stops, start time and end time derived from those fixes.
C9_MatchOutcomeAbsorbed ==
    [][\A c \in 1..Len(cycles) :
          (cycles[c].pc = "snap" /\ cycles'[c].pc = "done") =>
              LET v == cycles[c].validCoords
              IN  /\ Len(v) >= 1
                  /\ coordinates' = v
                  /\ distance' = ToFixed2(Num(ValidPairMetres(v, 1)))
                  /\ stops' = StopsUpTo(v, Len(v))
                  /\ startTime' = v[1].timestamp
                  /\ endTime' = v[Len(v)].timestamp]_vars

\* a cycle has ended on the unsnapped fixes: its map-matching call failed or
\* returned no matchings
C9_Witness ==
    /\ lastEnd = "ok"
    /\ Len(coordinates) >= 2
    /\ polylineCoords = coordinates
    /\ distance = "0.05"
    /\ stops = <<FixB>>
    /\ startTime = 0
    /\ endTime = 300

\* C10: every time window sent to the store query has start <= end.
C10_WindowOrdered ==
    \A c \in 1..Len(cycles) :
        cycles[c].pc = "query" =>
            NotAfter(cycles[c].window.fromTime, cycles[c].window.toTime)

-----------------------------------------------------------------------------
(* Claims about getDateRange, checked under SpecDate *)

\* 00:00:00.000 and 23:59:59.999 of a day
DayBounds(day) ==
    [start |-> [day |-> day, ms |-> 0],
     end |-> [day |-> day, ms |-> 86399999]]

\* C11: resolved on any reference date D, the first day of a month or of a
\* year included, "yesterday" gives 00:00:00.000 and 23:59:59.999 local time
\* of the calendar day just before D, and "today" the same bounds of D itself.
C11_PresetDayBounds ==
    (call = "getDateRange") =>
        /\ (ret.option = "today" => ret.range = DayBounds(args.day))
        /\ (ret.option = "yesterday" => ret.range = DayBounds(args.day - 1))

\* "yesterday" resolved at noon of 2024-01-01 is the whole of 2023-12-31
C11_Witness ==
    /\ call = "getDateRange"
    /\ args = [day |-> 31, ms |-> 12 * 3600000]
    /\ ret.option = "yesterday"
    /\ ret.range.start = [day |-> 30, ms |-> 0]
    /\ ret.range.end = [day |-> 30, ms |-> 86399999]

-----------------------------------------------------------------------------
(* Further claims about the retrieval cycles, checked under Spec *)

AllValid(fixes) == \A i \in 1..Len(fixes) : ValidFix(fixes[i])

\* C12: the coordinates held for display contain only valid fixes, and no
\* invalid fix returned by the store is passed on: the sequence a cycle hands
\* to snapToRoad, calculateTotalDistance and isStop (its validCoords), the
\* one the markers hand to calculateSpeed (coordinates) and the stops hold
\* valid fixes only.
C12_OnlyValidFixes ==
    /\ AllValid(coordinates)
    /\ AllValid(stops)
    /\ \A c \in 1..Len(cycles) : AllValid(cycles[c].validCoords)

\* the store returned an invalid row between two valid ones, and the display
\* holds the two valid ones
C12_Witness ==
    /\ coordinates = <<FixA, FixB>>
    /\ stops = <<FixB>>
    /\ lastEnd = "ok"

\* C13: snapToRoad returns a non-empty sequence for any non-empty fix
\* sequence and any response, so a cycle that stored a non-empty coordinates
\* list never leaves the polyline empty.
C13_PolylineNeverEmpty ==
    coordinates # <<>> => polylineCoords # <<>>

\* C14: from the clearing at a filter change until the retrieval started by
\* the latest filter change resolves, the display state stays cleared,
\* whatever other retrievals resolve in the meantime.
C14_ClearedUntilLatestResolves ==
    (Len(cycles) >= 1 /\ cycles[Len(cycles)].pc # "done") => Display = Cleared

====
